---- MODULE Spec2Model ----
(***************************************************************************)
(* tonecapture: the device / tone-file catalog (tonecapture/db, the        *)
(* seeding script), the impulse-response pipeline and the audio playback   *)
(* stream (tonecapture/player).                                            *)
(***************************************************************************)
EXTENDS Integers, Sequences, FiniteSets, TLC

VARIABLES
    manufacturers,              \* table manufacturers: rows [id, name]
    devices,                    \* table devices: rows [id, name, type, manufacturer_id]
    tone_files,                 \* table tone_files (joined with ir_files / nam_files)
    tone_file_device_links,     \* table tone_file_device_links
    last,                       \* catalog: what the last catalog operation returned or raised
    call,                       \* pipeline: the arguments of the pending pipeline call
    ret,                        \* pipeline: what the call returned or raised
    signal_len,                 \* AudioStream: len(self.signal), in frames
    position,                   \* AudioStream.position
    paused,                     \* AudioStream.paused
    stream,                     \* AudioStream.stream: None, or the state of the OutputStream
    abandoned,                  \* started OutputStreams that play() replaced and nothing stops
    returned                    \* AudioStream: the method that ran last, and what it raised

dbVars   == <<manufacturers, devices, tone_files, tone_file_device_links>>
catVars  == <<manufacturers, devices, tone_files, tone_file_device_links, last>>
pipeVars == <<call, ret>>
playerVars == <<signal_len, position, paused, stream, abandoned, returned>>
vars == <<manufacturers, devices, tone_files, tone_file_device_links, last, call, ret,
          signal_len, position, paused, stream, abandoned, returned>>

(***************************************************************************)
(* Bounds of the model.                                                    *)
(***************************************************************************)
MaxLen == 2         \* longest input buffer, in samples
MaxIRs == 2         \* longest list handed to average_impulse_responses
MaxDevices == 2     \* largest devices.id handed out
MaxToneFiles == 2   \* largest tone_files.id handed out
MaxLinks == 2       \* largest tone_file_device_links.id handed out
MaxSignal == 3      \* longest signal handed to AudioStream, in frames
MaxFrames == 2      \* most frames one output callback is asked for
MaxAbandoned == 1   \* most started streams left behind by play()

(***************************************************************************)
(* The catalog: tonecapture/db/models.py, as rows of its four tables.      *)
(***************************************************************************)
NULL == 0           \* a NULL column / a None reference; ids start at 1

\* An INTEGER PRIMARY KEY of SQLite: one more than the largest id in the table.
NextId(rows) ==
    IF rows = {} THEN 1
    ELSE (CHOOSE r \in rows : \A q \in rows : q.id <= r.id).id + 1

\* The database as one value: what a session reads, changes, commits.
DB == [manufacturers |-> manufacturers,
       devices |-> devices,
       tone_files |-> tone_files,
       tone_file_device_links |-> tone_file_device_links]

\* __mapper_args__ "polymorphic_identity" of each mapped Device class
DeviceClasses == {"Speaker", "Microphone", "Amplifier", "Pedal"}

\* Mutant: Pedal declared with the identity of Speaker.
PolymorphicIdentityPedalAsSpeaker(cls) ==
    CASE cls = "Device"     -> "device"
      [] cls = "Speaker"    -> "speaker"
      [] cls = "Microphone" -> "microphone"
      [] cls = "Amplifier"  -> "amplifier"
      [] cls = "Pedal"      -> "speaker"
      [] cls = "ToneFile"   -> "tone_file"
      [] cls = "IrFile"     -> "ir"
      [] cls = "NamFile"    -> "nam"

\* the discriminator value stored for an object of class cls
PolymorphicIdentity(cls) ==
    CASE cls = "Device"     -> "device"
      [] cls = "Speaker"    -> "speaker"
      [] cls = "Microphone" -> "microphone"
      [] cls = "Amplifier"  -> "amplifier"
      [] cls = "Pedal"      -> "pedal"
      [] cls = "ToneFile"   -> "tone_file"
      [] cls = "IrFile"     -> "ir"
      [] cls = "NamFile"    -> "nam"

\* the class the mapper instantiates for a devices row ("polymorphic_on": "type")
DevicePolymorphicMap(type) ==
    CASE type = "device"     -> "Device"
      [] type = "speaker"    -> "Speaker"
      [] type = "microphone" -> "Microphone"
      [] type = "amplifier"  -> "Amplifier"
      [] type = "pedal"      -> "Pedal"

\* the class the mapper instantiates for a tone_files row ("polymorphic_on": "file_type")
ToneFilePolymorphicMap(file_type) ==
    CASE file_type = "tone_file" -> "ToneFile"
      [] file_type = "ir"        -> "IrFile"
      [] file_type = "nam"       -> "NamFile"

\* None, and the object loaded from a devices row
None == [class |-> "NoneType", id |-> NULL]
DeviceObject(row) == [class |-> DevicePolymorphicMap(row.type), id |-> row.id]

\* session.get(Device, id)
GetDevice(db, id) ==
    IF \E d \in db.devices : d.id = id
    THEN DeviceObject(CHOOSE d \in db.devices : d.id = id)
    ELSE None

\* link.device: the many-to-one relationship("Device") of a link row
LinkDevice(db, link) == GetDevice(db, link.device_id)

(***************************************************************************)
(* Errors: tonecapture/db/exceptions.py and _handle_database_error.        *)
(***************************************************************************)
NoError == [type |-> "none"]

\* sqlalchemy.exc.IntegrityError, by the constraint its message names
IntegrityError(constraint, table, column) ==
    [type |-> "IntegrityError", constraint |-> constraint,
     table |-> table, column |-> column]

\* any other sqlalchemy.exc.SQLAlchemyError
OperationalError == [type |-> "OperationalError"]

DuplicateRecordError(model_name, field) ==
    [type |-> "DuplicateRecordError", model_name |-> model_name, field |-> field]

DatabaseError == [type |-> "DatabaseError"]

\* str.capitalize() of a table name
Capitalize(table) ==
    CASE table = "manufacturers" -> "Manufacturers"
      [] table = "devices" -> "Devices"
      [] table = "tone_files" -> "Tone_files"
      [] table = "tone_file_device_links" -> "Tone_file_device_links"

\* _handle_database_error(e)
handle_database_error(e) ==
    IF e.type = "IntegrityError"
    THEN (IF e.constraint = "UNIQUE"
          THEN DuplicateRecordError(Capitalize(e.table), e.column)
          ELSE DuplicateRecordError("Unknown", "Unknown"))
    ELSE IF e.type = "OperationalError"
    THEN DatabaseError
    ELSE e

(***************************************************************************)
(* A session: rows are inserted or deleted in a flush; a failed flush      *)
(* raises, and the caller rolls the session back to the last commit.       *)
(***************************************************************************)
Flushed(db, id) == [ok |-> TRUE, db |-> db, id |-> id, exc |-> NoError]
Failed(db, exc) == [ok |-> FALSE, db |-> db, id |-> NULL, exc |-> exc]

\* db.add(Manufacturer(name=name)), flushed
InsertManufacturer(db, name) ==
    IF \E m \in db.manufacturers : m.name = name
    THEN Failed(db, IntegrityError("UNIQUE", "manufacturers", "name"))
    ELSE LET id == NextId(db.manufacturers)
         IN  Flushed([db EXCEPT !.manufacturers = @ \cup {[id |-> id, name |-> name]}], id)

\* db.add(cls(name=name, manufacturer=...)), flushed
InsertDevice(db, cls, name, manufacturer_id) ==
    LET id == NextId(db.devices)
    IN  Flushed([db EXCEPT !.devices = @ \cup
                    {[id |-> id, name |-> name, type |-> PolymorphicIdentity(cls),
                      manufacturer_id |-> manufacturer_id]}], id)

\* db.add(cls(path=path, ...)), flushed: a row of tone_files and of its subtable
InsertToneFile(db, cls, path) ==
    IF \E t \in db.tone_files : t.path = path
    THEN Failed(db, IntegrityError("UNIQUE", "tone_files", "path"))
    ELSE LET id == NextId(db.tone_files)
         IN  Flushed([db EXCEPT !.tone_files = @ \cup
                         {[id |-> id, path |-> path,
                           file_type |-> PolymorphicIdentity(cls)]}], id)

\* db.add(ToneFileDeviceLink(tone_file=..., device=..., role=..., order=...)), flushed
InsertLink(db, tone_file_id, device_id, role, order) ==
    IF device_id = NULL
    THEN Failed(db, IntegrityError("NOT NULL", "tone_file_device_links", "device_id"))
    ELSE LET id == NextId(db.tone_file_device_links)
         IN  Flushed([db EXCEPT !.tone_file_device_links = @ \cup
                         {[id |-> id, tone_file_id |-> tone_file_id,
                           device_id |-> device_id, role |-> role,
                           order |-> order]}], id)

\* Mutant: the relationship without its delete cascade leaves the links.
CascadeNothing(links, tone_file_id) == links

\* ToneFile.device_links, cascade="all, delete-orphan": the links left once the
\* tone file is deleted
CascadeDeleteOrphan(links, tone_file_id) ==
    {l \in links : l.tone_file_id # tone_file_id}

\* db.delete(tone_file), flushed
DeleteToneFileRow(db, id) ==
    Flushed([db EXCEPT
               !.tone_file_device_links = CascadeDeleteOrphan(@, id),
               !.tone_files = {t \in @ : t.id # id}], id)

\* db.delete(link), flushed
DeleteLinkRow(db, id) ==
    Flushed([db EXCEPT !.tone_file_device_links = {l \in @ : l.id # id}], id)

\* db.delete(device), flushed.  No relationship leads from Device to its links,
\* so the unit of work deletes the devices row alone; only the foreign key of
\* tone_file_device_links.device_id can stop it, and SQLite enforces foreign
\* keys only on a connection that has them switched on.
DeleteDeviceRow(db, id, foreign_keys) ==
    IF foreign_keys /\ \E l \in db.tone_file_device_links : l.device_id = id
    THEN Failed(db, IntegrityError("FOREIGN KEY", "", ""))
    ELSE Flushed([db EXCEPT !.devices = {d \in @ : d.id # id}], id)

\* Mutant: the failed session is left as the flush left it.
RollbackNothing(committed, dirty) == dirty

\* db.rollback(): back to the last commit
Rollback(committed, dirty) == committed

\* try: db.add(...); db.commit()  except Exception as e: db.rollback();
\* raise _handle_database_error(e): the database and the error the caller sees
Committed(committed, flush) ==
    IF flush.ok
    THEN [db |-> flush.db, error |-> NoError, cause |-> NoError, id |-> flush.id]
    ELSE [db |-> Rollback(committed, flush.db),
          error |-> handle_database_error(flush.exc), cause |-> flush.exc,
          id |-> NULL]

(***************************************************************************)
(* Queries.                                                                *)
(***************************************************************************)
LinksOf(db, tone_file_id) ==
    {l \in db.tone_file_device_links : l.tone_file_id = tone_file_id}

\* The lists ToneFile.device_links may load: order_by="ToneFileDeviceLink.order"
\* is ORDER BY tone_file_device_links."order" alone, so rows with equal order
\* come in whatever order the engine returns them.
DeviceLinksLoads(db, tone_file_id) ==
    LET L == LinksOf(db, tone_file_id)
        n == Cardinality(L)
    IN  {s \in [1..n -> L] :
            /\ \A i, j \in 1..n : i # j => s[i] # s[j]
            /\ \A i, j \in 1..n : i < j => s[i].order <= s[j].order}

RECURSIVE LinkedDevices(_, _, _)
\* [link.device for link in device_links if keep(link.device)], keep given as
\* the set of classes kept
LinkedDevices(db, device_links, classes) ==
    IF device_links = <<>> THEN <<>>
    ELSE LET d == LinkDevice(db, Head(device_links))
             rest == LinkedDevices(db, Tail(device_links), classes)
         IN  IF d.class \in classes THEN <<d>> \o rest ELSE rest

\* ToneFile.devices: every linked device that is not None
Devices(db, device_links) ==
    LinkedDevices(db, device_links, DeviceClasses \cup {"Device"})

\* IrFile.speakers / NamFile.speakers, IrFile.microphones, NamFile.amplifiers,
\* NamFile.pedals: isinstance(link.device, cls)
Speakers(db, device_links)    == LinkedDevices(db, device_links, {"Speaker"})
Microphones(db, device_links) == LinkedDevices(db, device_links, {"Microphone"})
Amplifiers(db, device_links)  == LinkedDevices(db, device_links, {"Amplifier"})
Pedals(db, device_links)      == LinkedDevices(db, device_links, {"Pedal"})

(***************************************************************************)
(* Catalog operations: one session each, closed when the operation ends.   *)
(***************************************************************************)
\* What the last operation did: its name, the error it raised (NoError if
\* none) and the exception that error was raised from, the id and the class it
\* was about, the device_links list and the object a query loaded, and the
\* ids of the links a delete cascaded to.
Idle ==
    [op |-> "none", error |-> NoError, cause |-> NoError, id |-> NULL, cls |-> "",
     device_links |-> <<>>, obj |-> None, cascaded |-> {}]

Outcome(op, done, cls) ==
    [Idle EXCEPT !.op = op, !.error = done.error, !.cause = done.cause,
                 !.id = done.id, !.cls = cls]

Store(db) ==
    /\ manufacturers' = db.manufacturers
    /\ devices' = db.devices
    /\ tone_files' = db.tone_files
    /\ tone_file_device_links' = db.tone_file_device_links

Finish(op, done, cls) ==
    /\ Store(done.db)
    /\ last' = Outcome(op, done, cls)

CreateManufacturer(name) ==
    /\ Finish("create_manufacturer", Committed(DB, InsertManufacturer(DB, name)), "Manufacturer")
    /\ UNCHANGED pipeVars
    /\ UNCHANGED playerVars

CreateDevice(cls, name, manufacturer_id) ==
    /\ NextId(devices) <= MaxDevices
    /\ Finish("create_device", Committed(DB, InsertDevice(DB, cls, name, manufacturer_id)), cls)
    /\ UNCHANGED pipeVars
    /\ UNCHANGED playerVars

CreateToneFile(cls, path) ==
    /\ NextId(tone_files) <= MaxToneFiles
    /\ Finish("create_tone_file", Committed(DB, InsertToneFile(DB, cls, path)), cls)
    /\ UNCHANGED pipeVars
    /\ UNCHANGED playerVars

Link(tone_file_id, device_id, role, order) ==
    /\ NextId(tone_file_device_links) <= MaxLinks
    /\ Finish("link", Committed(DB, InsertLink(DB, tone_file_id, device_id, role, order)),
              "ToneFileDeviceLink")
    /\ UNCHANGED pipeVars
    /\ UNCHANGED playerVars

Unlink(id) ==
    /\ \E l \in tone_file_device_links : l.id = id
    /\ Finish("unlink", Committed(DB, DeleteLinkRow(DB, id)), "ToneFileDeviceLink")
    /\ UNCHANGED pipeVars
    /\ UNCHANGED playerVars

DeleteToneFile(id) ==
    /\ \E t \in tone_files : t.id = id
    /\ \E done \in {Committed(DB, DeleteToneFileRow(DB, id))} :
          /\ Store(done.db)
          /\ last' = [Outcome("delete_tone_file", done, "ToneFile") EXCEPT
                         !.cascaded = {l.id : l \in LinksOf(DB, id)}]
    /\ UNCHANGED pipeVars
    /\ UNCHANGED playerVars

DeleteDevice(id) ==
    /\ \E d \in devices : d.id = id
    /\ \E foreign_keys \in BOOLEAN :
          LET done == Committed(DB, DeleteDeviceRow(DB, id, foreign_keys))
          IN  /\ Store(done.db)
              /\ last' = [Outcome("delete_device", done, "Device") EXCEPT !.id = id]
    /\ UNCHANGED pipeVars
    /\ UNCHANGED playerVars

FindDevice(id) ==
    /\ last' = [Idle EXCEPT !.op = "find_device", !.id = id, !.cls = "Device",
                             !.obj = GetDevice(DB, id)]
    /\ UNCHANGED dbVars
    /\ UNCHANGED pipeVars
    /\ UNCHANGED playerVars

FindToneFile(id) ==
    /\ \E t \in tone_files : t.id = id
    /\ \E device_links \in DeviceLinksLoads(DB, id) :
          last' = [Idle EXCEPT
                      !.op = "find_tone_file", !.id = id,
                      !.cls = ToneFilePolymorphicMap(
                                  (CHOOSE t \in tone_files : t.id = id).file_type),
                      !.device_links = device_links]
    /\ UNCHANGED dbVars
    /\ UNCHANGED pipeVars
    /\ UNCHANGED playerVars

(***************************************************************************)
(* scripts/seed_db.py                                                      *)
(***************************************************************************)
SeedPath == "/data/irs/celestion_v30_sm57.wav"

\* db.add(celestion); db.add(shure): one flush of two rows
SeedManufacturers(db) ==
    LET a == InsertManufacturer(db, "Celestion")
    IN  IF ~a.ok THEN [ok |-> FALSE, db |-> a.db, exc |-> a.exc, ids |-> <<>>]
        ELSE LET b == InsertManufacturer(a.db, "Shure")
             IN  IF ~b.ok THEN [ok |-> FALSE, db |-> b.db, exc |-> b.exc, ids |-> <<>>]
                 ELSE [ok |-> TRUE, db |-> b.db, exc |-> NoError, ids |-> <<a.id, b.id>>]

\* db.add(vintage30); db.add(sm57)
SeedDevices(db, manufacturer_ids) ==
    LET a == InsertDevice(db, "Speaker", "Vintage 30", manufacturer_ids[1])
        b == InsertDevice(a.db, "Microphone", "SM-57", manufacturer_ids[2])
    IN  [db |-> b.db, ids |-> <<a.id, b.id>>]

\* db.add(link1); db.add(link2)
SeedLinks(db, tone_file_id, device_ids) ==
    LET a == InsertLink(db, tone_file_id, device_ids[1], "Speaker", 1)
        b == InsertLink(a.db, tone_file_id, device_ids[2], "Microphone", 2)
    IN  b.db

\* seed_database(): four commits in one try block; the except branch rolls
\* back to the last of them and raises the translated error.  id is the step
\* (1 manufacturers, 2 devices, 3 IR file, 4 links) the run ended in.
seed_database(db) ==
    LET m == SeedManufacturers(db)
    IN  IF ~m.ok
        THEN [db |-> Rollback(db, m.db), error |-> handle_database_error(m.exc),
              cause |-> m.exc, id |-> 1]
        ELSE LET d == SeedDevices(m.db, m.ids)
                 t == InsertToneFile(d.db, "IrFile", SeedPath)
             IN  IF ~t.ok
                 THEN [db |-> Rollback(d.db, t.db),
                       error |-> handle_database_error(t.exc), cause |-> t.exc,
                       id |-> 3]
                 ELSE [db |-> SeedLinks(t.db, t.id, d.ids), error |-> NoError,
                       cause |-> NoError, id |-> 4]

WithinBounds(db) ==
    /\ \A d \in db.devices : d.id <= MaxDevices
    /\ \A t \in db.tone_files : t.id <= MaxToneFiles
    /\ \A l \in db.tone_file_device_links : l.id <= MaxLinks

SeedDatabase ==
    /\ \E done \in {seed_database(DB)} :
          /\ WithinBounds(done.db)
          /\ Store(done.db)
          /\ last' = Outcome("seed_database", done, "")
    /\ UNCHANGED pipeVars
    /\ UNCHANGED playerVars

(***************************************************************************)
(* Sample values.  A sample is a float; the model keeps it exact, as a     *)
(* fraction <<n, d>> in lowest terms with d > 0.  The IEEE results of a    *)
(* division by zero keep d = 0: <<0,0>> is NaN, <<1,0>> +Inf, <<-1,0>>     *)
(* -Inf.                                                                   *)
(***************************************************************************)
RECURSIVE GCD(_, _)
GCD(a, b) == IF b = 0 THEN a ELSE GCD(b, a % b)

IAbs(n) == IF n < 0 THEN -n ELSE n

Frac(n, d) ==
    LET g == GCD(IAbs(n), IAbs(d))
        s == IF d < 0 THEN -1 ELSE 1
    IN  <<(s * n) \div g, (s * d) \div g>>

Zero == <<0, 1>>
One  == <<1, 1>>
NaN  == <<0, 0>>

IsFinite(x) == x[2] # 0
IsNaN(x)    == x = NaN

FAdd(x, y) == Frac(x[1] * y[2] + y[1] * x[2], x[2] * y[2])
FMul(x, y) == Frac(x[1] * y[1], x[2] * y[2])
FAbs(x)    == <<IAbs(x[1]), x[2]>>
FLess(x, y) == x[1] * y[2] < y[1] * x[2]

\* x / y as numpy computes it: a zero divisor gives NaN or an infinity (with a
\* RuntimeWarning), never an exception.
FDiv(x, y) ==
    IF y[1] = 0
    THEN (IF x[1] = 0 THEN NaN ELSE IF x[1] > 0 THEN <<1, 0>> ELSE <<-1, 0>>)
    ELSE Frac(x[1] * y[2], x[2] * y[1])

\* The values an input sample takes.
SampleValues == { <<-1, 1>>, Zero, <<1, 2>> }

\* The sample rates of the inputs.
Rates == {44100, 48000}

SeqsOfLen(S, n) == [1..n -> S]

Buffers(S, n) == UNION {SeqsOfLen(S, k) : k \in 0..n}

IsSilent(buf) == \A i \in 1..Len(buf) : buf[i][1] = 0

(***************************************************************************)
(* numpy reductions and array operations used by the pipeline.             *)
(***************************************************************************)
\* the largest of a non-empty set of values
MaxOf(S) == CHOOSE m \in S : \A x \in S : ~FLess(m, x)

\* np.max(buf) of a non-empty array
NpMax(buf) == MaxOf({buf[i] : i \in 1..Len(buf)})

\* np.max(np.abs(buf)) of a non-empty array
NpMaxAbs(buf) == MaxOf({FAbs(buf[i]) : i \in 1..Len(buf)})

\* buf / peak, elementwise
NpDivide(buf, peak) == [i \in 1..Len(buf) |-> FDiv(buf[i], peak)]

\* Mutant: the zeros go in front, np.pad(ir, (n - len(ir), 0)).
NpPadLeft(buf, n) ==
    [i \in 1..n |-> IF i > n - Len(buf) THEN buf[i - (n - Len(buf))] ELSE Zero]

\* np.pad(ir, (0, n - len(ir)), mode="constant")
NpPadRight(buf, n) == [i \in 1..n |-> IF i <= Len(buf) THEN buf[i] ELSE Zero]

RECURSIVE ConvSum(_, _, _, _)
ConvSum(a, v, k, i) ==
    IF i > Len(a) THEN Zero
    ELSE LET j == k - i + 1
             t == IF j >= 1 /\ j <= Len(v) THEN FMul(a[i], v[j]) ELSE Zero
         IN  FAdd(t, ConvSum(a, v, k, i + 1))

\* np.convolve(a, v, mode="full") of two non-empty arrays
NpConvolveFull(a, v) ==
    [k \in 1..(Len(a) + Len(v) - 1) |-> ConvSum(a, v, k, 1)]

RECURSIVE ColumnSum(_, _, _)
ColumnSum(rows, i, r) ==
    IF r > Len(rows) THEN Zero
    ELSE FAdd(rows[r][i], ColumnSum(rows, i, r + 1))

\* np.mean(rows, axis=0) of equally long rows
NpMeanAxis0(rows, n) ==
    [i \in 1..n |-> FDiv(ColumnSum(rows, i, 1), <<Len(rows), 1>>)]

\* max(len(ir) for ir in impulse_responses) of a non-empty list
MaxLength(bufs) ==
    CHOOSE n \in {Len(bufs[r]) : r \in 1..Len(bufs)} :
        \A r \in 1..Len(bufs) : Len(bufs[r]) <= n

(***************************************************************************)
(* What a call returns.                                                    *)
(***************************************************************************)
NoRet == [kind |-> "none"]
Returned(samples, used) == [kind |-> "array", samples |-> samples, ir_used |-> used]
Raised(exc, msg) == [kind |-> "raise", exc |-> exc, msg |-> msg]

MsgNoIRs      == "No impulse responses provided for averaging."
MsgEmptyA     == "a cannot be empty"
MsgEmptyV     == "v cannot be empty"
MsgTooSmall   == "Input signal length=0 is too small to resample"
MsgZeroSize   == "zero-size array to reduction operation maximum which has no identity"

(***************************************************************************)
(* resample_signal                                                         *)
(***************************************************************************)
\* librosa.resample returns ceil(len * target / orig) samples.
ResampledLen(n, orig, target) == (n * target + orig - 1) \div orig

\* The arrays librosa.resample may return.  The band-limited filter is linear:
\* silence stays silence, a signal that is not silent stays not silent; the
\* values themselves are left open.
LibrosaResample(buf, orig, target) ==
    LET n == ResampledLen(Len(buf), orig, target)
    IN  {r \in SeqsOfLen(SampleValues, n) : IsSilent(r) <=> IsSilent(buf)}

\* resample_signal(signal, original_sample_rate, target_sample_rate): the set
\* of arrays it may return.
resample_signal(buf, orig, target) ==
    IF orig = target THEN {buf}
    ELSE LibrosaResample(buf, orig, target)

(***************************************************************************)
(* apply_ir                                                                *)
(***************************************************************************)
\* Mutant: the peak taken without np.abs, convolved_signal / np.max(convolved_signal).
ApplyNormalizeNoAbs(convolved) ==
    NpDivide(convolved, NpMax(convolved))

\* the last line of apply_ir: convolved_signal / np.max(np.abs(convolved_signal))
ApplyNormalize(convolved) == NpDivide(convolved, NpMaxAbs(convolved))

\* The impulse responses apply_ir may convolve with.
ApplyIrUsed(c) ==
    IF c.signal_sample_rate # c.impulse_response_sample_rate
    THEN resample_signal(c.impulse_response, c.impulse_response_sample_rate,
                         c.signal_sample_rate)
    ELSE {c.impulse_response}

\* apply_ir once the impulse response to convolve with is known.  np.convolve
\* takes the longer array as a and refuses an empty a, then an empty v.
apply_ir_with(signal, used) ==
    IF Len(signal) = 0 /\ Len(used) = 0
    THEN Raised("ValueError", MsgEmptyA)
    ELSE IF Len(signal) = 0 \/ Len(used) = 0
    THEN Raised("ValueError", MsgEmptyV)
    ELSE Returned(ApplyNormalize(NpConvolveFull(signal, used)), used)

\* What apply_ir may return or raise.  Resampling an empty impulse response
\* either gives an empty array or makes librosa raise, by its version.
apply_ir(c) ==
    {apply_ir_with(c.signal, used) : used \in ApplyIrUsed(c)}
    \cup (IF /\ c.signal_sample_rate # c.impulse_response_sample_rate
              /\ Len(c.impulse_response) = 0
           THEN {Raised("ParameterError", MsgTooSmall)}
           ELSE {})

ApplyIr ==
    /\ call.fn = "apply_ir"
    /\ ret = NoRet
    /\ ret' \in apply_ir(call)
    /\ UNCHANGED call
    /\ UNCHANGED catVars
    /\ UNCHANGED playerVars

(***************************************************************************)
(* average_impulse_responses                                               *)
(***************************************************************************)
\* the last line: averaged_ir / np.max(np.abs(averaged_ir))
AverageNormalize(averaged) ==
    IF Len(averaged) = 0
    THEN Raised("ValueError", MsgZeroSize)
    ELSE Returned(NpDivide(averaged, NpMaxAbs(averaged)), <<>>)

PaddedIRs(irs) ==
    LET max_length == MaxLength(irs)
    IN  [r \in 1..Len(irs) |-> NpPadRight(irs[r], max_length)]

average_impulse_responses(irs) ==
    IF Len(irs) = 0
    THEN Raised("ValueError", MsgNoIRs)
    ELSE AverageNormalize(NpMeanAxis0(PaddedIRs(irs), MaxLength(irs)))

AverageImpulseResponses ==
    /\ call.fn = "average_impulse_responses"
    /\ ret = NoRet
    /\ ret' = average_impulse_responses(call.impulse_responses)
    /\ UNCHANGED call
    /\ UNCHANGED catVars
    /\ UNCHANGED playerVars

(***************************************************************************)
(* AudioStream.__init__                                                    *)
(***************************************************************************)
Completed(method) == [method |-> method, error |-> "none"]

PortAudioError(method) == [method |-> method, error |-> "PortAudioError"]

\* AudioStream.__init__, for a signal of n frames
Constructed(n) ==
    /\ signal_len = n
    /\ position = 0
    /\ paused = FALSE
    /\ stream = "None"
    /\ abandoned = 0
    /\ returned = Completed("__init__")

\* no AudioStream is in use: the catalog and the pipeline never build one
NoPlayer == Constructed(0)

(***************************************************************************)
(* The pipeline: a call with its arguments, then its result.               *)
(***************************************************************************)
ApplyCalls ==
    [fn : {"apply_ir"},
     signal : Buffers(SampleValues, MaxLen),
     signal_sample_rate : Rates,
     impulse_response : Buffers(SampleValues, MaxLen),
     impulse_response_sample_rate : Rates]

AverageCalls ==
    [fn : {"average_impulse_responses"},
     impulse_responses : Buffers(Buffers(SampleValues, MaxLen), MaxIRs)]

PipelineInit ==
    /\ call \in ApplyCalls \cup AverageCalls
    /\ ret = NoRet
    /\ manufacturers = {}
    /\ devices = {}
    /\ tone_files = {}
    /\ tone_file_device_links = {}
    /\ last = Idle
    /\ NoPlayer

PipelineNext ==
    \/ ApplyIr
    \/ AverageImpulseResponses

SpecPipeline == PipelineInit /\ [][PipelineNext]_vars

(***************************************************************************)
(* The catalog: an empty database, then any sequence of operations.        *)
(***************************************************************************)
NoCall == [fn |-> "none"]

CatalogEmpty ==
    /\ manufacturers = {}
    /\ devices = {}
    /\ tone_files = {}
    /\ tone_file_device_links = {}
    /\ last = Idle

CatalogInit ==
    /\ CatalogEmpty
    /\ call = NoCall
    /\ ret = NoRet
    /\ NoPlayer

NamPath == "/data/nam/jcm800.nam"

DeviceName(cls) ==
    CASE cls = "Speaker" -> "Vintage 30"
      [] cls = "Microphone" -> "SM-57"
      [] cls = "Amplifier" -> "JCM 800"
      [] cls = "Pedal" -> "TS9"

DeviceIds   == 1..MaxDevices
ToneFileIds == 1..MaxToneFiles
LinkIds     == 1..MaxLinks
Orders      == {1, 2}
Roles       == {"Main Mic"}

\* the registry: devices, tone files and the links between them
Next ==
    \/ \E cls \in DeviceClasses : CreateDevice(cls, DeviceName(cls), NULL)
    \/ \E t \in {<<"IrFile", SeedPath>>, <<"NamFile", NamPath>>} : CreateToneFile(t[1], t[2])
    \/ \E t \in tone_files, d \in {x.id : x \in devices} \cup {NULL},
          role \in Roles, order \in Orders : Link(t.id, d, role, order)
    \/ \E id \in LinkIds : Unlink(id)
    \/ \E id \in ToneFileIds : DeleteToneFile(id)
    \/ \E id \in DeviceIds : DeleteDevice(id)
    \/ \E id \in DeviceIds : FindDevice(id)
    \/ \E id \in ToneFileIds : FindToneFile(id)

Spec == CatalogInit /\ [][Next]_vars

\* tone files created, linked, unlinked and deleted
CascadeNext ==
    \/ CreateDevice("Speaker", DeviceName("Speaker"), NULL)
    \/ \E t \in {<<"IrFile", SeedPath>>, <<"NamFile", NamPath>>} : CreateToneFile(t[1], t[2])
    \/ \E t \in tone_files, d \in devices, role \in Roles : Link(t.id, d.id, role, 1)
    \/ \E id \in LinkIds : Unlink(id)
    \/ \E id \in ToneFileIds : DeleteToneFile(id)

SpecCascade == CatalogInit /\ [][CascadeNext]_vars

\* devices of every class created, deleted, linked into the chain of one tone
\* file and loaded again
KindsNext ==
    \/ \E cls \in DeviceClasses : CreateDevice(cls, DeviceName(cls), NULL)
    \/ \E id \in DeviceIds : DeleteDevice(id)
    \/ \E cls \in {"IrFile", "NamFile"} : CreateToneFile(cls, SeedPath)
    \/ \E t \in tone_files, d \in devices, role \in Roles, order \in Orders :
          Link(t.id, d.id, role, order)
    \/ \E id \in ToneFileIds : FindToneFile(id)

SpecKinds == CatalogInit /\ [][KindsNext]_vars

\* the seeding script, run against a catalog that manufacturers and tone
\* files are also added to and tone files deleted from
SeedNext ==
    \/ SeedDatabase
    \/ \E name \in {"Celestion", "Shure"} : CreateManufacturer(name)
    \/ \E cls \in {"IrFile", "NamFile"}, path \in {SeedPath, NamPath} : CreateToneFile(cls, path)
    \/ \E id \in ToneFileIds : DeleteToneFile(id)

SpecSeed == CatalogInit /\ [][SeedNext]_vars

(***************************************************************************)
(* AudioStream: playback of a signal through a sounddevice OutputStream.   *)
(* The stream is None until play(); an OutputStream is "active" once        *)
(* started, "stopped" after stream.stop(), "finished" after its callback    *)
(* raised CallbackStop, and "closed" after stream.close().  Only an active  *)
(* stream has stream.active true.  One callback runs at a time.             *)
(***************************************************************************)
Minimum(a, b) == IF a < b THEN a ELSE b

chunksize(frames) == Minimum(signal_len - position, frames)

\* _callback, called by the active stream for `frames` frames of output
Callback(frames) ==
    /\ stream = "active"
    /\ IF chunksize(frames) < frames
       THEN /\ stream' = "finished"            \* raise sd.CallbackStop
            /\ UNCHANGED position
       ELSE /\ position' = position + chunksize(frames)
            /\ UNCHANGED stream
    /\ returned' = Completed("_callback")
    /\ UNCHANGED <<signal_len, paused, abandoned>>
    /\ UNCHANGED catVars
    /\ UNCHANGED pipeVars

\* _callback, called by a stream that play() replaced while it was active
AbandonedCallback(frames) ==
    /\ abandoned > 0
    /\ IF chunksize(frames) < frames
       THEN /\ abandoned' = abandoned - 1      \* raise sd.CallbackStop
            /\ UNCHANGED position
       ELSE /\ position' = position + chunksize(frames)
            /\ UNCHANGED abandoned
    /\ returned' = Completed("_callback")
    /\ UNCHANGED <<signal_len, paused, stream>>
    /\ UNCHANGED catVars
    /\ UNCHANGED pipeVars

\* play(): a new OutputStream is built and started; the one it replaces is
\* neither stopped nor closed
Play ==
    /\ stream = "active" => abandoned < MaxAbandoned
    /\ abandoned' = IF stream = "active" THEN abandoned + 1 ELSE abandoned
    /\ stream' = "active"
    /\ paused' = FALSE
    /\ returned' = Completed("play")
    /\ UNCHANGED <<signal_len, position>>
    /\ UNCHANGED catVars
    /\ UNCHANGED pipeVars

\* pause()
Pause ==
    /\ IF stream = "active"
       THEN /\ stream' = "stopped"
            /\ paused' = TRUE
       ELSE UNCHANGED <<stream, paused>>
    /\ returned' = Completed("pause")
    /\ UNCHANGED <<signal_len, position, abandoned>>
    /\ UNCHANGED catVars
    /\ UNCHANGED pipeVars

\* resume(): stream.start() restarts a stopped stream, leaves a finished one
\* as it is, and raises on a closed one
Resume ==
    /\ IF stream = "stopped"
       THEN /\ stream' = "active"
            /\ paused' = FALSE
            /\ returned' = Completed("resume")
       ELSE IF stream = "finished"
       THEN /\ paused' = FALSE
            /\ returned' = Completed("resume")
            /\ UNCHANGED stream
       ELSE IF stream = "closed"
       THEN /\ returned' = PortAudioError("resume")
            /\ UNCHANGED <<stream, paused>>
       ELSE /\ returned' = Completed("resume")
            /\ UNCHANGED <<stream, paused>>
    /\ UNCHANGED <<signal_len, position, abandoned>>
    /\ UNCHANGED catVars
    /\ UNCHANGED pipeVars

\* stop()
Stop ==
    /\ IF stream = "active"
       THEN /\ stream' = "closed"
            /\ paused' = FALSE
       ELSE UNCHANGED <<stream, paused>>
    /\ returned' = Completed("stop")
    /\ UNCHANGED <<signal_len, position, abandoned>>
    /\ UNCHANGED catVars
    /\ UNCHANGED pipeVars

PlayerInit ==
    /\ \E n \in 0..MaxSignal : Constructed(n)
    /\ CatalogEmpty
    /\ call = NoCall
    /\ ret = NoRet

PlayerNext ==
    \/ Play
    \/ Pause
    \/ Resume
    \/ Stop
    \/ \E frames \in 1..MaxFrames : Callback(frames)
    \/ \E frames \in 1..MaxFrames : AbandonedCallback(frames)

SpecPlayer == PlayerInit /\ [][PlayerNext]_vars

(***************************************************************************)
(* Properties of the catalog.                                              *)
(***************************************************************************)
Succeeded(op) == last.op = op /\ last.error = NoError

\* C1: deleting a tone file that has N >= 0 links, after any sequence of
\* tone-file creations, link creations and unlinks, leaves no link whose
\* tone_file_id is the deleted id, and leaves the links of every other tone
\* file as they were.
C1_CascadeComplete ==
    [][(last'.op = "delete_tone_file" /\ last'.error = NoError) =>
          /\ \A l \in tone_file_device_links' : l.tone_file_id # last'.id
          /\ \A l \in tone_file_device_links :
                 l.tone_file_id # last'.id => l \in tone_file_device_links'
          /\ tone_file_device_links' \subseteq tone_file_device_links
          /\ \A t \in tone_files' : t.id # last'.id]_vars

\* C1 witness: a tone file with a link was deleted, its link went with it, and
\* a link of another tone file is still there.
C1_Witness ==
    /\ Succeeded("delete_tone_file")
    /\ last.cascaded # {}
    /\ tone_file_device_links # {}
    /\ \A l \in tone_file_device_links : l.tone_file_id # last.id

\* C2: the chain loaded for a tone file is ascending by order, and links of
\* equal order come in ascending link id, so the same stored links always give
\* the same chain.
C2_ChainSortedStable ==
    last.op = "find_tone_file" =>
        \A i, j \in 1..Len(last.device_links) :
            i < j =>
                \/ last.device_links[i].order < last.device_links[j].order
                \/ /\ last.device_links[i].order = last.device_links[j].order
                   /\ last.device_links[i].id < last.device_links[j].id

\* C3: deleting a device never leaves a dangling reference: every link with a
\* device_id refers to a device that exists, and a delete that is refused is
\* refused with ReferentialIntegrityViolation.
C3_NoDanglingDevice ==
    /\ \A l \in tone_file_device_links :
           l.device_id # NULL => \E d \in devices : d.id = l.device_id
    /\ (last.op = "delete_device" /\ last.error # NoError) =>
           last.error.type = "ReferentialIntegrityViolation"

\* C4: a seeding run that fails, at whichever step, leaves the catalog as it
\* was before the run: no manufacturer, device, tone file or link is added.
C4_FailedSeedChangesNothing ==
    [][(last'.op = "seed_database" /\ last'.error # NoError) =>
          /\ manufacturers' = manufacturers
          /\ devices' = devices
          /\ tone_files' = tone_files
          /\ tone_file_device_links' = tone_file_device_links]_vars

UniqueNames == \A a, b \in manufacturers : a.name = b.name => a = b
UniquePaths == \A a, b \in tone_files : a.path = b.path => a = b

C5_Step ==
    /\ last'.op = "create_manufacturer" =>
          IF last'.error = NoError
          THEN Cardinality(manufacturers') = Cardinality(manufacturers) + 1
          ELSE /\ last'.error.type = "DuplicateRecordError"
               /\ manufacturers' = manufacturers
    /\ (last'.op = "seed_database" /\ last'.id = 1) =>
          /\ last'.error.type = "DuplicateRecordError"
          /\ \E m \in manufacturers : m.name \in {"Celestion", "Shure"}
          /\ manufacturers' = manufacturers
    /\ last'.op = "create_tone_file" =>
          IF last'.error = NoError
          THEN Cardinality(tone_files') = Cardinality(tone_files) + 1
          ELSE /\ last'.error.type = "DuplicateRecordError"
               /\ tone_files' = tone_files
    /\ (last'.op = "seed_database" /\ last'.id = 3) =>
          /\ last'.error.type = "DuplicateRecordError"
          /\ \E t \in tone_files : t.path = SeedPath
          /\ tone_files' = tone_files

\* C5: creating a manufacturer whose name exists fails with DuplicateRecord
\* and leaves exactly the manufacturers there were (no second row of that
\* name); the same for a tone file whose path exists.
C5_DuplicateLeavesRows ==
    /\ [](UniqueNames /\ UniquePaths)
    /\ [][C5_Step]_vars

\* C5 witness: the seeding run found "Shure" there and "Celestion" not, failed
\* on the manufacturers, and the one manufacturer is all there is.
C5_Witness ==
    /\ last.op = "seed_database" /\ last.id = 1
    /\ last.error.type = "DuplicateRecordError"
    /\ {m.name : m \in manufacturers} = {"Shure"}

\* C9: DuplicateRecord is reported only for a unique-constraint violation on
\* manufacturers.name or tone_files.path; every other storage failure becomes
\* another error of the taxonomy, and none reaches the caller raw.
C9_DuplicateOnlyForUniqueKeys ==
    /\ last.error.type = "DuplicateRecordError" =>
           \/ last.cause = IntegrityError("UNIQUE", "manufacturers", "name")
           \/ last.cause = IntegrityError("UNIQUE", "tone_files", "path")
    /\ last.error.type \notin {"IntegrityError", "OperationalError"}

RECURSIVE OfClass(_, _)
\* the objects of class cls in a list of objects, in the order of the list
OfClass(objs, cls) ==
    IF objs = <<>> THEN <<>>
    ELSE IF Head(objs).class = cls
         THEN <<Head(objs)>> \o OfClass(Tail(objs), cls)
         ELSE OfClass(Tail(objs), cls)

\* C10: a device created as one of the four kinds is found by its id as that
\* kind; no id is held by two devices rows; and speakers, microphones,
\* amplifiers and pedals of a loaded tone file are the chain's devices of that
\* kind, in chain order.
C10_PolymorphicRoundTrip ==
    /\ \A a, b \in devices : a.id = b.id => a = b
    /\ Succeeded("create_device") => GetDevice(DB, last.id).class = last.cls
    /\ last.op = "find_tone_file" =>
           \A chain \in {Devices(DB, last.device_links)} :
               /\ Speakers(DB, last.device_links) = OfClass(chain, "Speaker")
               /\ Microphones(DB, last.device_links) = OfClass(chain, "Microphone")
               /\ Amplifiers(DB, last.device_links) = OfClass(chain, "Amplifier")
               /\ Pedals(DB, last.device_links) = OfClass(chain, "Pedal")
               /\ \A i \in 1..Len(chain) :
                      \E d \in devices :
                          /\ d.id = chain[i].id
                          /\ PolymorphicIdentity(chain[i].class) = d.type

\* C10 witness: a NAM file loaded with a pedal ahead of a speaker in its chain.
C10_Witness ==
    /\ last.op = "find_tone_file" /\ last.cls = "NamFile"
    /\ Len(last.device_links) = 2
    /\ Len(Pedals(DB, last.device_links)) = 1
    /\ Len(Speakers(DB, last.device_links)) = 1
    /\ Devices(DB, last.device_links)[1].class = "Pedal"

(***************************************************************************)
(* Properties of the pipeline.                                             *)
(***************************************************************************)
IsApply   == call.fn = "apply_ir" /\ ret # NoRet
IsAverage == call.fn = "average_impulse_responses" /\ ret # NoRet

BothGiven ==
    /\ Len(call.signal) > 0 /\ ~IsSilent(call.signal)
    /\ Len(call.impulse_response) > 0 /\ ~IsSilent(call.impulse_response)

C7_Result ==
    (IsApply /\ BothGiven) =>
        /\ ret.kind = "array"
        /\ (call.signal_sample_rate = call.impulse_response_sample_rate
               => ret.ir_used = call.impulse_response)
        /\ Len(ret.samples) = Len(call.signal) + Len(ret.ir_used) - 1
        /\ NpMaxAbs(ret.samples) = One
        /\ \A conv \in {NpConvolveFull(call.signal, ret.ir_used)} :
               \A peak \in {NpMaxAbs(conv)} :
                   \A k \in 1..Len(ret.samples) :
                       FMul(ret.samples[k], peak) = conv[k]

\* C7: for a non-silent, non-empty signal and impulse response, apply_ir returns
\* the convolution of the signal with the impulse response (resampled when the
\* rates differ, as given when they are equal) divided by its peak: the output
\* has len(signal) + len(IR used) - 1 samples, its largest absolute sample is
\* 1.0, and the arguments of the call are left as they were.
C7_ApplyIrComposition ==
    /\ []C7_Result
    /\ [][call' = call]_vars

\* C7 witness: a two-sample signal convolved with a resampled impulse response.
C7_Witness ==
    /\ IsApply /\ BothGiven /\ ret.kind = "array"
    /\ call.signal_sample_rate # call.impulse_response_sample_rate
    /\ Len(call.signal) = 2
    /\ Len(ret.ir_used) # Len(call.impulse_response)
    /\ \E k \in 1..Len(ret.samples) : ret.samples[k] = <<-1, 1>>

RECURSIVE SumAt(_, _, _)
\* the sum over the buffers of b[i], with 0 where the buffer has no sample i
SumAt(irs, i, r) ==
    IF r > Len(irs) THEN Zero
    ELSE FAdd(IF i <= Len(irs[r]) THEN irs[r][i] ELSE Zero, SumAt(irs, i, r + 1))

MeanAt(irs, i) == FDiv(SumAt(irs, i, 1), <<Len(irs), 1>>)

\* the largest |mean| over the sample positions 1..n, n >= 1
PeakOfMean(irs, n) ==
    LET means == {FAbs(MeanAt(irs, i)) : i \in 1..n}
    IN  CHOOSE p \in means : \A m \in means : ~FLess(p, m)

\* the length of the longest buffer of a non-empty list
LongestIR(irs) ==
    CHOOSE n \in 0..MaxLen : /\ \E r \in 1..Len(irs) : Len(irs[r]) = n
                             /\ \A r \in 1..Len(irs) : Len(irs[r]) <= n

\* C6: peak normalization never propagates numeric garbage: an all-zero buffer
\* (the convolution in apply_ir, the mean in average_impulse_responses) makes
\* the call fail with SilentSignal instead of returning NaN/Inf samples, and a
\* buffer whose peak is already 1.0 comes back unchanged.
C6_NormalizeGuarded ==
    /\ ret.kind = "array" =>
          \A i \in 1..Len(ret.samples) : IsFinite(ret.samples[i])
    /\ (IsApply /\ ret.kind = "array") =>
          LET conv == NpConvolveFull(call.signal, ret.ir_used)
          IN  NpMaxAbs(conv) = One => ret.samples = conv
    /\ (IsAverage /\ ret.kind = "array") =>
          \A n \in {Len(ret.samples)} :
              PeakOfMean(call.impulse_responses, n) = One =>
                  \A i \in 1..n : ret.samples[i] = MeanAt(call.impulse_responses, i)

\* the result is the element-wise mean of the right-padded buffers over its peak
AverageAsStated(irs) ==
    /\ ret.kind = "array"
    /\ Len(ret.samples) = LongestIR(irs)
    /\ \A n \in {LongestIR(irs)} :
           \A peak \in {PeakOfMean(irs, n)} :
               \A i \in 1..n : ret.samples[i] = FDiv(MeanAt(irs, i), peak)

EmptyInputRaised == ret = Raised("ValueError", MsgNoIRs)

\* C8 as stated: for every non-empty list the result is the right-padded mean
\* divided by its peak; for the empty list the call fails with EmptyInput.
C8_AverageAnyList ==
    IsAverage =>
        IF Len(call.impulse_responses) = 0
        THEN EmptyInputRaised
        ELSE AverageAsStated(call.impulse_responses)

\* C8, amended: for every non-empty list holding at least one non-empty buffer,
\* sample i of the result is (sum over the buffers of b[i], 0 where i >= len(b))
\* / count / peak of the mean (NaN where that peak is 0); a list of empty
\* buffers only makes numpy's empty reduction raise; the empty list fails with
\* EmptyInput.
C8_AverageNonEmptyBuffers ==
    IsAverage =>
        IF Len(call.impulse_responses) = 0
        THEN EmptyInputRaised
        ELSE IF LongestIR(call.impulse_responses) = 0
        THEN ret = Raised("ValueError", MsgZeroSize)
        ELSE AverageAsStated(call.impulse_responses)

\* C8 witness: two buffers of different lengths averaged, the shorter one
\* padded at its tail: [[-1], [-1, -1]] gives [-1, -0.5].
C8_Witness ==
    /\ IsAverage
    /\ call.impulse_responses = << <<(<<-1, 1>>)>>, << <<-1, 1>>, <<-1, 1>> >> >>
    /\ ret.kind = "array"
    /\ ret.samples = << <<-1, 1>>, <<-1, 2>> >>

(***************************************************************************)
(* Properties of the audio stream.                                         *)
(***************************************************************************)
\* C11: stop() stops the playback and resets the position: once stop() has
\* returned, after any sequence of play(), pause(), resume() and output
\* callbacks, the stream is not active, paused is false and position is 0, so
\* that a later play() starts from the beginning of the signal.
C11_StopResets ==
    returned.method = "stop" =>
        /\ stream # "active"
        /\ paused = FALSE
        /\ position = 0

====
